---- MODULE Spec2Model ----
(***************************************************************************)
(* Equation-region detector of src/src/parsers/equation_detector.py.       *)
(*                                                                         *)
(* A call of detect_equations_from_pdf_page_image loads an image, then     *)
(* detect_equations_in_image runs the OpenCV stages, sorts the contours,   *)
(* filters them with _is_equation_like, expands and clips each accepted    *)
(* box, optionally writes the crop to a file and optionally runs the       *)
(* recognizer on it.                                                       *)
(*                                                                         *)
(* The OpenCV stages (grayscale, adaptive threshold, closing, findContours)*)
(* are library code: an image is represented by its size, an identity for  *)
(* its pixel content, and the list of bounding rectangles of the contours  *)
(* that findContours returns for it, in the order it returns them.  The    *)
(* recognizer (pytesseract) is library code as well: each invocation       *)
(* either returns a text or raises.                                        *)
(***************************************************************************)
EXTENDS Integers, Sequences, FiniteSets, TLC

VARIABLES
    args,        \* per call: the decoded image (or NoImage) and the keyword arguments
    pc,          \* per call: position in the code
    contours,    \* per call: the sorted contour list (bounding rectangles)
    idx,         \* per call: the loop index of enumerate(contours), 0-based
    entry,       \* per call: the dict being built in the current iteration
    candidates,  \* per call: the list that is returned
    accepted,    \* per call: the loop index each appended entry came from
    ocrLog,      \* per call: the recognizer invocations, <<idx, outcome>>
    wrote,       \* per call: the file paths the call has written
    dirs,        \* file system: the directories that exist
    files,       \* file system: path -> content of the crop files
    heap         \* memory: the storage behind each array, and the storage written in place

vars == <<args, pc, contours, idx, entry, candidates, accepted, ocrLog, wrote, dirs, files, heap>>

----------------------------------------------------------------------------
(* Bounds of the model *)

MaxContours == 2     \* longest contour list of the list images
ImgW == 40           \* width of the list images
ImgH == 44           \* height of the list images

(* Program constants *)

MinArea == 400       \* area < 400
MinDim == 10         \* h < 10 or w < 10
FullPagePct == 95    \* img_w * 0.95, img_h * 0.95
MarginXPct == 3      \* int(w * 0.03)
MarginYPct == 5      \* int(h * 0.05)
PadWidth == 3        \* f"eq_{idx:03d}.png"

\* cv2.imread's result for a missing or undecodable file (None)
NoImage == [id |-> 0, w |-> 0, h |-> 0, raw |-> <<>>]
\* no entry dict is being built
NoEntry == [none |-> TRUE]
DefaultOutDir == "data/equation_crops"
OutDirs == {DefaultOutDir, "out"}

----------------------------------------------------------------------------
(* Inputs *)

Rect(x, y, w, h) == [x |-> x, y |-> y, w |-> w, h |-> h]

SeqsUpTo(S, n) == UNION {[1..k -> S] : k \in 0..n}

\* Horizontal and vertical extents <<start, length>> the list images use:
\* (nearly) full, two adjacent halves, an inner span with a margin, a sliver.
XSpans(W) == {<<0, W>>, <<0, W \div 2>>, <<W \div 2, W - (W \div 2)>>, <<3, W - 6>>, <<0, 9>>}
YSpans(H) == {<<0, H - 3>>, <<0, 20>>, <<20, 20>>, <<22, H - 22>>, <<0, 9>>}

ListRects == {Rect(xs[1], ys[1], xs[2], ys[2]) : xs \in XSpans(ImgW), ys \in YSpans(ImgH)}

\* findContours(RETR_EXTERNAL) returns one contour per connected component
\* of the mask.  A component touches the four sides of its bounding
\* rectangle, so it joins the left side to the right side and the top to the
\* bottom.  Two components never meet, hence their rectangles never cross:
\* a's columns within b's columns and b's rows within a's rows (two equal
\* rectangles included) cannot happen.
Crossing(a, b) ==
    /\ b.x <= a.x /\ a.x + a.w <= b.x + b.w
    /\ a.y <= b.y /\ b.y + b.h <= a.y + a.h

Feasible(s) == \A i, j \in DOMAIN s : i # j => ~Crossing(s[i], s[j])

ListImages ==
    {[id |-> 1, w |-> ImgW, h |-> ImgH, raw |-> s] :
        s \in {t \in SeqsUpTo(ListRects, MaxContours) : Feasible(t)}}

\* Images with a single contour, of every width and height, at the
\* top-left or bottom-right corner of the image.
ProbeDims == {<<20, 20>>, <<25, 25>>, <<40, 25>>, <<40, 50>>}

ProbeImages ==
    UNION {
      UNION {
        {[id |-> 1, w |-> d[1], h |-> d[2], raw |-> <<Rect(0, 0, w, h)>>],
         [id |-> 1, w |-> d[1], h |-> d[2], raw |-> <<Rect(d[1] - w, d[2] - h, w, h)>>]}
        : w \in 1..d[1], h \in 1..d[2]}
      : d \in ProbeDims}

\* The images of the two-call specification: distinct pixel contents.
ConcImages ==
    {[id |-> 1, w |-> ImgW, h |-> ImgH,
      raw |-> <<Rect(0, 20, 20, 20), Rect(0, 0, ImgW, 20)>>],
     [id |-> 2, w |-> ImgW, h |-> ImgH,
      raw |-> <<Rect(3, 22, ImgW - 6, ImgH - 22)>>],
     [id |-> 3, w |-> ImgW, h |-> ImgH,
      raw |-> <<Rect(0, 0, 9, 9), Rect(0, 0, 20, 20)>>]}

Configs(outdirs) == [save_crops : BOOLEAN, out_dir : outdirs, ocr : BOOLEAN]

ArgsOver(images, outdirs) ==
    {[img |-> i, save_crops |-> c.save_crops, out_dir |-> c.out_dir, ocr |-> c.ocr] :
        i \in images \cup {NoImage}, c \in Configs(outdirs)}

\* What the recognizer does on one invocation: returns a text (stripped,
\* possibly empty) or raises.
OcrOutcomes == {[ok |-> TRUE, text |-> "x=1"], [ok |-> TRUE, text |-> ""],
                [ok |-> FALSE, text |-> "tesseract failed"]}

----------------------------------------------------------------------------
(* Pure helpers *)

\* key of sorted(): boundingRect(c)[1] * img.shape[1] + boundingRect(c)[0]
Key(r, W) == r.y * W + r.x

\* sorted() is stable: a contour goes after every contour whose key is
\* less than or equal to its own and that came before it.
RECURSIVE InsertByKey(_, _, _)
InsertByKey(s, r, W) ==
    IF s = <<>> THEN <<r>>
    ELSE IF Key(s[Len(s)], W) <= Key(r, W) THEN Append(s, r)
    ELSE Append(InsertByKey(SubSeq(s, 1, Len(s) - 1), r, W), s[Len(s)])

RECURSIVE SortPrefix(_, _, _)
SortPrefix(raw, n, W) ==
    IF n = 0 THEN <<>> ELSE InsertByKey(SortPrefix(raw, n - 1, W), raw[n], W)

\* SortContours without the sort
SortContoursRaw(raw, W) == raw

SortContours(raw, W) == SortPrefix(raw, Len(raw), W)

\* TooSmall with <= for <
TooSmallInclusive(r) == r.w * r.h <= MinArea

\* area < 400
TooSmall(r) == r.w * r.h < MinArea

\* FullPage with "or" for "and"
FullPageEither(r, W, H) == 100 * r.w > FullPagePct * W \/ 100 * r.h > FullPagePct * H

\* w > img_w * 0.95 and h > img_h * 0.95
\* (for integers the float comparison w > W * 0.95 is 100 w > 95 W)
FullPage(r, W, H) == 100 * r.w > FullPagePct * W /\ 100 * r.h > FullPagePct * H

\* BadAspect with "or" for "and"
BadAspectEither(r) == 5 * r.w <= r.h \/ r.w > 10 * r.h

\* ar = w / (h + 1e-6);  ar < 0.2 and ar > 10
\* (for integers w, h >= 1: ar < 0.2 is 5 w <= h, and ar > 10 is w > 10 h)
BadAspect(r) == 5 * r.w <= r.h /\ r.w > 10 * r.h

\* h < 10 or w < 10
Sliver(r) == r.h < MinDim \/ r.w < MinDim

\* _is_equation_like, with its early returns in order
IsEquationLike(r, W, H) ==
    IF TooSmall(r) THEN FALSE
    ELSE IF FullPage(r, W, H) THEN FALSE
    ELSE IF BadAspect(r) THEN FALSE
    ELSE IF Sliver(r) THEN FALSE
    ELSE TRUE

\* int(w * 0.03), int(h * 0.05): truncation of a non-negative float
MarginX(r) == (r.w * MarginXPct) \div 100
MarginY(r) == (r.h * MarginYPct) \div 100

Max(a, b) == IF a >= b THEN a ELSE b
Min(a, b) == IF a <= b THEN a ELSE b

\* ClipBox without the max(0, .) and min(size, .) clipping
ClipBoxUnclipped(r, W, H) ==
    [x0 |-> r.x - MarginX(r),
     y0 |-> r.y - MarginY(r),
     x1 |-> r.x + r.w + MarginX(r),
     y1 |-> r.y + r.h + MarginY(r)]

\* ClipBox with every margin one pixel larger
ClipBoxWide(r, W, H) ==
    [x0 |-> Max(0, r.x - MarginX(r) - 1),
     y0 |-> Max(0, r.y - MarginY(r) - 1),
     x1 |-> Min(W, r.x + r.w + MarginX(r) + 1),
     y1 |-> Min(H, r.y + r.h + MarginY(r) + 1)]

\* x0, y0, x1, y1 of the expanded and clipped box
ClipBox(r, W, H) ==
    [x0 |-> Max(0, r.x - MarginX(r)),
     y0 |-> Max(0, r.y - MarginY(r)),
     x1 |-> Min(W, r.x + r.w + MarginX(r)),
     y1 |-> Min(H, r.y + r.h + MarginY(r))]

\* "bbox": (x0, y0, x1 - x0, y1 - y0)
BBox(b) == <<b.x0, b.y0, b.x1 - b.x0, b.y1 - b.y0>>

\* img[y0:y1, x0:x1].copy(): the pixels of that image inside the box
Crop(img, b) == [src |-> img.id, rows |-> <<b.y0, b.y1>>, cols |-> <<b.x0, b.x1>>]

\* f"{idx:03d}": the decimal digits of idx, zero-padded to width 3
RECURSIVE Digits(_)
Digits(n) == IF n < 10 THEN <<n>> ELSE Append(Digits(n \div 10), n % 10)

RECURSIVE ZeroPad(_, _)
ZeroPad(d, width) == IF Len(d) >= width THEN d ELSE ZeroPad(<<0>> \o d, width)

\* FName without the index
FNameFixed(i) == [stem |-> "eq_", digits |-> ZeroPad(Digits(0), PadWidth), ext |-> ".png"]

\* fname = f"eq_{idx:03d}.png"
FName(i) == [stem |-> "eq_", digits |-> ZeroPad(Digits(i), PadWidth), ext |-> ".png"]

\* os.path.join(out_dir, fname)
Path(dir, i) == [dir |-> dir, name |-> FName(i)]

----------------------------------------------------------------------------
(* The calls *)

Calls == DOMAIN pc

Image(c) == args[c].img

\* The arrays of a call: the caller's image, the intermediate images of the
\* stages, and one crop per accepted candidate.
ArrayName(c, n, k) == [call |-> c, name |-> n, k |-> k]
ImgArray(c) == ArrayName(c, "img", 0)
CropArray(c, k) == ArrayName(c, "crop", k)

\* cv2.imread returns a 3-channel BGR array; a caller of
\* detect_equations_in_image may pass a single-channel array as well
Channels(img) == IF "channels" \in DOMAIN img THEN img.channels ELSE 3

\* each caller's image lives in its own storage; nothing is written yet;
\* the caller has mutated no crop
InitialHeap(calls) ==
    [backing |-> [a \in {ImgArray(c) : c \in calls} |-> a],
     written |-> {},
     mutated |-> {}]

\* _to_gray: cvtColor makes a new array; a single-channel img is returned
\* as it is, so gray is the caller's array
GrayBuffer(h, c) ==
    IF Channels(Image(c)) = 3 THEN ArrayName(c, "gray", 0) ELSE h.backing[ImgArray(c)]

\* _to_gray, _binarize, _morph_close and findContours: adaptiveThreshold
\* and morphologyEx return new arrays; findContours is given the closed
\* mask, which OpenCV before 3.2 modifies in place
AfterStages(h, c) ==
    [h EXCEPT
       !.backing = (ArrayName(c, "gray", 0) :> GrayBuffer(h, c))
                   @@ (ArrayName(c, "bin", 0) :> ArrayName(c, "bin", 0))
                   @@ (ArrayName(c, "closed", 0) :> ArrayName(c, "closed", 0))
                   @@ h.backing,
       !.written = h.written \cup {ArrayName(c, "closed", 0)}]

\* CropBuffer without .copy(): the slice is a view of img
CropBufferView(h, c, k) == h.backing[ImgArray(c)]

\* img[y0:y1, x0:x1].copy(): the crop has storage of its own
CropBuffer(h, c, k) == CropArray(c, k)

\* crop = img[y0:y1, x0:x1].copy()
WithCrop(h, c) ==
    [h EXCEPT !.backing = (CropArray(c, idx[c]) :> CropBuffer(h, c, idx[c])) @@ h.backing]

\* LoadTarget without the None check
LoadTargetUnchecked(img) == "ensure"

\* if img is None: raise FileNotFoundError(...), else call detect_equations_in_image
LoadTarget(img) == IF img = NoImage THEN "raised" ELSE "ensure"

\* InitialCandidates with a list that outlives the call
StaleCandidates(c) ==
    IF \E d \in Calls \ {c} : pc[d] = "done"
    THEN candidates[CHOOSE d \in Calls \ {c} : pc[d] = "done"]
    ELSE <<>>

\* candidates = []
InitialCandidates(c) == <<>>

\* the entry dict after "bbox" and "crop" are set, and "saved_path" when saving
NewEntry(c, r) ==
    LET b == ClipBox(r, Image(c).w, Image(c).h)
        base == [bbox |-> BBox(b), crop |-> Crop(Image(c), b)]
    IN  IF args[c].save_crops
        THEN base @@ ("saved_path" :> Path(args[c].out_dir, idx[c]))
        ELSE base

\* WithOcr without the except branch's assignments
WithOcrUncaught(e, o) == IF o.ok THEN e @@ ("tesseract_text" :> o.text) ELSE e

\* WithOcr setting the error key on every attempt
WithOcrAlwaysError(e, o) ==
    IF o.ok THEN e @@ ("tesseract_text" :> o.text) @@ ("ocr_error" :> "")
    ELSE e @@ ("tesseract_text" :> "") @@ ("ocr_error" :> o.text)

\* the try/except around the recognizer: text on success, "" and the
\* message on failure
WithOcr(e, o) ==
    IF o.ok THEN e @@ ("tesseract_text" :> o.text)
    ELSE e @@ ("tesseract_text" :> "") @@ ("ocr_error" :> o.text)

\* detect_equations_from_pdf_page_image: cv2.imread and the None check
Load(c) ==
    /\ pc[c] = "load"
    /\ pc' = [pc EXCEPT ![c] = LoadTarget(Image(c))]
    /\ UNCHANGED <<args, heap, contours, idx, entry, candidates, accepted, ocrLog, wrote, dirs, files>>

\* _ensure_dir(out_dir) if save_crops else None
EnsureDir(c) ==
    /\ pc[c] = "ensure"
    /\ dirs' = IF args[c].save_crops THEN dirs \cup {args[c].out_dir} ELSE dirs
    /\ pc' = [pc EXCEPT ![c] = "contours"]
    /\ UNCHANGED <<args, heap, contours, idx, entry, candidates, accepted, ocrLog, wrote, files>>

\* gray, binarize, close, find contours, candidates = [], sorted(contours)
FindContours(c) ==
    /\ pc[c] = "contours"
    /\ contours' = [contours EXCEPT ![c] = SortContours(Image(c).raw, Image(c).w)]
    /\ candidates' = [candidates EXCEPT ![c] = InitialCandidates(c)]
    /\ idx' = [idx EXCEPT ![c] = 0]
    /\ pc' = [pc EXCEPT ![c] = "loop"]
    /\ heap' = AfterStages(heap, c)
    /\ UNCHANGED <<args, entry, accepted, ocrLog, wrote, dirs, files>>

\* the contour at the loop index (sequences are 1-based)
Current(c) == contours[c][idx[c] + 1]

\* if not _is_equation_like(c, img.shape): continue
Skip(c) ==
    /\ pc[c] = "loop"
    /\ idx[c] < Len(contours[c])
    /\ ~IsEquationLike(Current(c), Image(c).w, Image(c).h)
    /\ idx' = [idx EXCEPT ![c] = idx[c] + 1]
    /\ UNCHANGED <<args, heap, pc, contours, entry, candidates, accepted, ocrLog, wrote, dirs, files>>

\* margins, clip, crop, entry, and cv2.imwrite when save_crops
Finalize(c) ==
    /\ pc[c] = "loop"
    /\ idx[c] < Len(contours[c])
    /\ IsEquationLike(Current(c), Image(c).w, Image(c).h)
    /\ LET e == NewEntry(c, Current(c))
       IN  /\ entry' = [entry EXCEPT ![c] = e]
           /\ IF args[c].save_crops
              THEN /\ files' = (e.saved_path :> e.crop) @@ files
                   /\ wrote' = [wrote EXCEPT ![c] = wrote[c] \cup {e.saved_path}]
              ELSE UNCHANGED <<files, wrote>>
    /\ pc' = [pc EXCEPT ![c] = "ocr"]
    /\ heap' = WithCrop(heap, c)
    /\ UNCHANGED <<args, contours, idx, candidates, accepted, ocrLog, dirs>>

\* candidates.append(entry) and the next iteration
AppendEntry(c, e) ==
    /\ candidates' = [candidates EXCEPT ![c] = Append(candidates[c], e)]
    /\ accepted' = [accepted EXCEPT ![c] = Append(accepted[c], idx[c])]
    /\ entry' = [entry EXCEPT ![c] = NoEntry]
    /\ idx' = [idx EXCEPT ![c] = idx[c] + 1]
    /\ pc' = [pc EXCEPT ![c] = "loop"]

\* if ocr: try pytesseract.image_to_string ... except Exception; then append
Recognize(c) ==
    /\ pc[c] = "ocr"
    /\ args[c].ocr
    /\ \E o \in OcrOutcomes :
          /\ ocrLog' = [ocrLog EXCEPT ![c] = Append(ocrLog[c], <<idx[c], o>>)]
          /\ AppendEntry(c, WithOcr(entry[c], o))
    /\ UNCHANGED <<args, heap, contours, wrote, dirs, files>>

\* ocr is False: append the entry as it is
NoRecognize(c) ==
    /\ pc[c] = "ocr"
    /\ ~args[c].ocr
    /\ AppendEntry(c, entry[c])
    /\ UNCHANGED <<args, heap, contours, ocrLog, wrote, dirs, files>>

\* return candidates
Return(c) ==
    /\ pc[c] = "loop"
    /\ idx[c] = Len(contours[c])
    /\ pc' = [pc EXCEPT ![c] = "done"]
    /\ UNCHANGED <<args, heap, contours, idx, entry, candidates, accepted, ocrLog, wrote, dirs, files>>

Next ==
    \/ \E c \in Calls : Load(c)
    \/ \E c \in Calls : EnsureDir(c)
    \/ \E c \in Calls : FindContours(c)
    \/ \E c \in Calls : Skip(c)
    \/ \E c \in Calls : Finalize(c)
    \/ \E c \in Calls : Recognize(c)
    \/ \E c \in Calls : NoRecognize(c)
    \/ \E c \in Calls : Return(c)

InitOver(calls, argset) ==
    /\ args \in [calls -> argset]
    /\ pc = [c \in calls |-> "load"]
    /\ contours = [c \in calls |-> <<>>]
    /\ idx = [c \in calls |-> 0]
    /\ entry = [c \in calls |-> NoEntry]
    /\ candidates = [c \in calls |-> <<>>]
    /\ accepted = [c \in calls |-> <<>>]
    /\ ocrLog = [c \in calls |-> <<>>]
    /\ wrote = [c \in calls |-> {}]
    /\ dirs = {}
    /\ files = <<>>
    /\ heap = InitialHeap(calls)

\* One call, on any of the list images or single-contour images.
Init == InitOver({1}, ArgsOver(ListImages \cup ProbeImages, {DefaultOutDir}))

Spec == Init /\ [][Next]_vars

\* Two calls running concurrently (for instance one per page in a worker
\* pool), sharing the file system.
InitConc == InitOver({1, 2}, ArgsOver(ConcImages, OutDirs))

SpecConc == InitConc /\ [][Next]_vars

----------------------------------------------------------------------------
(* Vocabulary of the claims *)

Done(c) == pc[c] = "done"

\* the positions of the returned list
Regions(c) == 1..Len(candidates[c])

\* the pre-margin candidate box of the i-th returned Region
Source(c, i) == contours[c][accepted[c][i] + 1]

BoxX(e) == e.bbox[1]
BoxY(e) == e.bbox[2]
BoxW(e) == e.bbox[3]
BoxH(e) == e.bbox[4]

\* two bboxes share a pixel
Overlap(e, f) ==
    /\ BoxX(e) < BoxX(f) + BoxW(f)
    /\ BoxX(f) < BoxX(e) + BoxW(e)
    /\ BoxY(e) < BoxY(f) + BoxH(f)
    /\ BoxY(f) < BoxY(e) + BoxH(e)

\* the sorted contours that pass the filter, as bboxes, computed directly
RECURSIVE ExpectedBoxes(_, _, _)
ExpectedBoxes(s, W, H) ==
    IF s = <<>> THEN <<>>
    ELSE LET rest == ExpectedBoxes(Tail(s), W, H)
         IN  IF (~TooSmall(s[1])) /\ ~FullPage(s[1], W, H) /\ ~Sliver(s[1])
             THEN <<<<Max(0, s[1].x - MarginX(s[1])),
                      Max(0, s[1].y - MarginY(s[1])),
                      Min(W, s[1].x + s[1].w + MarginX(s[1])) - Max(0, s[1].x - MarginX(s[1])),
                      Min(H, s[1].y + s[1].h + MarginY(s[1])) - Max(0, s[1].y - MarginY(s[1]))>>>>
                  \o rest
             ELSE rest

----------------------------------------------------------------------------
(* C1: every bbox (x, y, w, h) of a Region of the list being returned has
   x >= 0, y >= 0, w > 0, h > 0, x + w <= image width and y + h <= image
   height, wherever the candidate rectangle lies, border included. *)
C1_BBoxInsideImage ==
    \A c \in Calls : \A i \in Regions(c) :
        LET e == candidates[c][i]
        IN  /\ BoxX(e) >= 0
            /\ BoxY(e) >= 0
            /\ BoxW(e) > 0
            /\ BoxH(e) > 0
            /\ BoxX(e) + BoxW(e) <= Image(c).w
            /\ BoxY(e) + BoxH(e) <= Image(c).h

\* a returned Region whose expanded box left the image on the left and on
\* the right and was clipped
C1_Witness ==
    \E c \in Calls : Done(c) /\ \E i \in Regions(c) :
        /\ Source(c, i).x - MarginX(Source(c, i)) < 0
        /\ Source(c, i).x + Source(c, i).w + MarginX(Source(c, i)) > Image(c).w
        /\ BoxX(candidates[c][i]) = 0
        /\ BoxW(candidates[c][i]) = Image(c).w

(* C2, as claimed: the bboxes of the Regions returned by one call are
   pairwise non-overlapping. *)
C2_NoOverlap ==
    \A c \in Calls : Done(c) =>
        \A i, j \in Regions(c) : i < j => ~Overlap(candidates[c][i], candidates[c][j])

\* the candidate boxes of Regions i and j are apart, on one axis, by at
\* least the sum of their margins on that axis
Apart(c, i, j) ==
    LET a == Source(c, i)
        b == Source(c, j)
    IN  \/ a.x + a.w + MarginX(a) + MarginX(b) <= b.x
        \/ b.x + b.w + MarginX(b) + MarginX(a) <= a.x
        \/ a.y + a.h + MarginY(a) + MarginY(b) <= b.y
        \/ b.y + b.h + MarginY(b) + MarginY(a) <= a.y

(* C2, amended: the bboxes of two Regions returned by one call do not
   overlap when their pre-margin candidate boxes are apart, horizontally or
   vertically, by at least the sum of their margins on that axis. *)
C2_NoOverlapWhenApart ==
    \A c \in Calls : Done(c) =>
        \A i, j \in Regions(c) :
            (i < j /\ Apart(c, i, j)) => ~Overlap(candidates[c][i], candidates[c][j])

\* two returned Regions, one above the other, both with a vertical margin,
\* exactly the two margins apart
C2_Witness ==
    \E c \in Calls : Done(c) /\ \E i, j \in Regions(c) :
        /\ i < j
        /\ MarginY(Source(c, i)) > 0
        /\ MarginY(Source(c, j)) > 0
        /\ Source(c, i).y + Source(c, i).h + MarginY(Source(c, i)) + MarginY(Source(c, j))
             = Source(c, j).y
        /\ Source(c, i).x < Source(c, j).x + Source(c, j).w
        /\ Source(c, j).x < Source(c, i).x + Source(c, i).w

(* C3, as claimed: the returned list is in strictly ascending order of
   y * image_width + x of the pre-margin candidate boxes. *)
C3_StrictKeyOrder ==
    \A c \in Calls : Done(c) =>
        \A i, j \in Regions(c) :
            i < j => Key(Source(c, i), Image(c).w) < Key(Source(c, j), Image(c).w)

(* C3, amended: the returned list is in ascending, not necessarily strict,
   order of y * image_width + x of the pre-margin candidate boxes (two
   candidates with the same top-left corner have the same key), and the
   Regions keep the relative order their candidates have in the sorted
   candidate list. *)
C3_KeyOrder ==
    \A c \in Calls : Done(c) =>
        \A i, j \in Regions(c) :
            i < j => /\ Key(Source(c, i), Image(c).w) <= Key(Source(c, j), Image(c).w)
                     /\ accepted[c][i] < accepted[c][j]

\* two Regions returned in the opposite order to the one in which the
\* contour stage produced their contours
C3_Witness ==
    \E c \in Calls :
        /\ Done(c)
        /\ Len(candidates[c]) = 2
        /\ Len(Image(c).raw) = 2
        /\ Key(Image(c).raw[1], Image(c).w) > Key(Image(c).raw[2], Image(c).w)
        /\ Source(c, 1) = Image(c).raw[2]
        /\ Source(c, 2) = Image(c).raw[1]

\* the bboxes of the returned list, in order
RECURSIVE BoxesOf(_)
BoxesOf(s) == IF s = <<>> THEN <<>> ELSE <<s[1].bbox>> \o BoxesOf(Tail(s))

(* C4: a recognizer failure on a Region is absorbed: the Region is returned
   with recognized text "" and the error message, the call never ends with
   an error once the image is loaded, and the bboxes returned are, in number
   and order, those of the accepted candidates whatever the recognizer did. *)
C4_FailureAbsorbed ==
    \A c \in Calls :
        /\ pc[c] = "raised" => Image(c) = NoImage
        /\ Len(ocrLog[c]) <= Len(candidates[c])
        /\ args[c].ocr =>
             \A i \in Regions(c) :
                 ~ocrLog[c][i][2].ok =>
                     /\ "tesseract_text" \in DOMAIN candidates[c][i]
                     /\ candidates[c][i].tesseract_text = ""
                     /\ "ocr_error" \in DOMAIN candidates[c][i]
                     /\ candidates[c][i].ocr_error = ocrLog[c][i][2].text
        /\ Done(c) =>
             BoxesOf(candidates[c]) = ExpectedBoxes(contours[c], Image(c).w, Image(c).h)

\* a call that returned two Regions, the recognizer having failed on the
\* first and succeeded on the second
C4_Witness ==
    \E c \in Calls :
        /\ Done(c)
        /\ args[c].ocr
        /\ Len(candidates[c]) = 2
        /\ Len(ocrLog[c]) = 2
        /\ ~ocrLog[c][1][2].ok
        /\ ocrLog[c][2][2].ok
        /\ candidates[c][2].tesseract_text # ""

(* C5: with ocr=False the recognizer is never invoked and no Region has a
   recognized-text or recognition-error field; with ocr=True a Region has
   the error field only if the recognizer failed on that Region, and the
   recognizer is invoked once per Region. *)
C5_OcrFields ==
    \A c \in Calls :
        /\ ~args[c].ocr =>
             /\ ocrLog[c] = <<>>
             /\ \A i \in Regions(c) :
                    /\ "tesseract_text" \notin DOMAIN candidates[c][i]
                    /\ "ocr_error" \notin DOMAIN candidates[c][i]
        /\ args[c].ocr =>
             /\ Len(ocrLog[c]) = Len(candidates[c])
             /\ \A i \in Regions(c) :
                    /\ ocrLog[c][i][1] = accepted[c][i]
                    /\ "ocr_error" \in DOMAIN candidates[c][i] => ~ocrLog[c][i][2].ok

\* a call with ocr=False that returned a Region
C5_Witness ==
    \E c \in Calls : Done(c) /\ ~args[c].ocr /\ Len(candidates[c]) >= 1

(* C6: when the image is missing or undecodable the call ends with the
   error raised, returns nothing, runs no stage, creates no directory and
   writes no file. *)
C6_LoadFailure ==
    \A c \in Calls :
        Image(c) = NoImage =>
            /\ pc[c] \in {"load", "raised"}
            /\ contours[c] = <<>>
            /\ candidates[c] = <<>>
            /\ ocrLog[c] = <<>>
            /\ wrote[c] = {}
            /\ args[c].out_dir \notin dirs
            /\ DOMAIN files = {}

\* a call asked to save crops whose image could not be loaded, ended by
\* the error
C6_Witness ==
    \E c \in Calls : pc[c] = "raised" /\ Image(c) = NoImage /\ args[c].save_crops

----------------------------------------------------------------------------
(* The filter's decisions, read off a finished call *)

\* the loop indices of the candidates the call accepted
AcceptedIdx(c) == {accepted[c][i] : i \in 1..Len(accepted[c])}

\* the loop indices of the sorted candidate list
Indices(c) == 0..(Len(contours[c]) - 1)

Cand(c, k) == contours[c][k + 1]

Area(r) == r.w * r.h

(* C7, as claimed: two calls on different images never write the same
   location, and when a call has returned, the file at each Region's
   saved_path holds that Region's crop, as it would had the call run alone. *)
C7_NoSharedLocation ==
    \A c, d \in Calls :
        (c # d /\ Image(c) # NoImage /\ Image(d) # NoImage /\ Image(c).id # Image(d).id) =>
            /\ wrote[c] \cap wrote[d] = {}
            /\ Done(c) =>
                 \A i \in Regions(c) :
                     "saved_path" \in DOMAIN candidates[c][i] =>
                         files[candidates[c][i].saved_path] = candidates[c][i].crop

\* what a call returns apart from the recognizer's output: bbox, crop and
\* saved path of each Region, in order
RECURSIVE Detected(_)
Detected(s) ==
    IF s = <<>> THEN <<>>
    ELSE <<[k \in DOMAIN s[1] \ {"tesseract_text", "ocr_error"} |-> s[1][k]]>>
         \o Detected(Tail(s))

(* C8: two finished runs of the detector on the same bitmap with the same
   configuration return the same number of Regions with the same bboxes and
   the same crops in the same order, whether the runs follow one another or
   overlap; the files they leave hold those crops. *)
C8_Idempotent ==
    \A c, d \in Calls :
        (c # d /\ Done(c) /\ Done(d) /\ args[c] = args[d]) =>
            /\ Detected(candidates[c]) = Detected(candidates[d])
            /\ BoxesOf(candidates[c]) = ExpectedBoxes(contours[c], Image(c).w, Image(c).h)
            /\ \A i \in Regions(c) :
                   "saved_path" \in DOMAIN candidates[c][i] =>
                       files[candidates[c][i].saved_path] = candidates[c][i].crop

\* two finished runs on the same bitmap, saving crops, that returned two
\* Regions each
C8_Witness ==
    \E c, d \in Calls :
        /\ c # d
        /\ Done(c) /\ Done(d)
        /\ args[c] = args[d]
        /\ args[c].save_crops
        /\ Len(candidates[c]) = 2

(* C9, as claimed: a candidate whose area w*h is exactly 400 is accepted by
   the filter, and one of area just below 400 is rejected. *)
C9_Area400Accepted ==
    \A c \in Calls : Done(c) =>
        \A k \in Indices(c) :
            /\ Area(Cand(c, k)) = MinArea => k \in AcceptedIdx(c)
            /\ Area(Cand(c, k)) < MinArea => k \notin AcceptedIdx(c)

(* C9, amended: a candidate whose area w*h is exactly 400 is accepted by
   the filter when its width and height are both at least 10 and it does
   not exceed 95% of the image in both width and height; every candidate of
   area below 400, in particular one a pixel narrower or shorter than an
   area-400 candidate, is rejected. *)
C9_AreaBoundary ==
    \A c \in Calls : Done(c) =>
        \A k \in Indices(c) :
            LET r == Cand(c, k)
            IN  /\ ( /\ Area(r) = 400
                     /\ r.w >= 10
                     /\ r.h >= 10
                     /\ ~(100 * r.w > 95 * Image(c).w /\ 100 * r.h > 95 * Image(c).h) )
                       => k \in AcceptedIdx(c)
                /\ Area(r) < 400 => k \notin AcceptedIdx(c)
                /\ ((r.w + 1) * r.h = 400 \/ r.w * (r.h + 1) = 400) => k \notin AcceptedIdx(c)

\* a candidate of area exactly 400 that the call accepted
C9_Witness ==
    \E c \in Calls : Done(c) /\ \E k \in AcceptedIdx(c) : Area(Cand(c, k)) = 400

(* C10: a candidate that passes the area and minimum-dimension checks is
   rejected exactly when its width exceeds 95% of the image width and its
   height exceeds 95% of the image height; a candidate covering 96% x 96% of
   the image is rejected; one covering 90% x 96% is accepted when it passes
   the area and minimum-dimension checks. *)
C10_FullPageRule ==
    \A c \in Calls : Done(c) =>
        \A k \in Indices(c) :
            LET r == Cand(c, k)
                W == Image(c).w
                H == Image(c).h
                passes == Area(r) >= 400 /\ r.w >= 10 /\ r.h >= 10
            IN  /\ passes =>
                      (k \notin AcceptedIdx(c) <=> (100 * r.w > 95 * W /\ 100 * r.h > 95 * H))
                /\ (100 * r.w >= 96 * W /\ 100 * r.h >= 96 * H) => k \notin AcceptedIdx(c)
                /\ (passes /\ 100 * r.w = 90 * W /\ 100 * r.h = 96 * H) => k \in AcceptedIdx(c)

\* a candidate covering 90% x 96% of the image that the call accepted
C10_Witness ==
    \E c \in Calls : Done(c) /\ \E k \in AcceptedIdx(c) :
        /\ 100 * Cand(c, k).w = 90 * Image(c).w
        /\ 100 * Cand(c, k).h = 96 * Image(c).h

----------------------------------------------------------------------------
(* The margin fractions as configuration.  The code writes them as the
   literals 0.03 and 0.05; here the same computation is taken at any
   percentage, which the call's arguments carry as margin_x_pct and
   margin_y_pct. *)

\* the percentages tried: the code's own two and a larger one
MarginPcts == {MarginXPct, MarginYPct, 20}

\* int(w * fraction), int(h * fraction)
MarginAt(len, pct) == (len * pct) \div 100

\* ClipBoxAt with the margin taken off the right and bottom edges
ClipBoxAtInward(r, W, H, px, py) ==
    [x0 |-> Max(0, r.x - MarginAt(r.w, px)),
     y0 |-> Max(0, r.y - MarginAt(r.h, py)),
     x1 |-> Min(W, r.x + r.w - MarginAt(r.w, px)),
     y1 |-> Min(H, r.y + r.h - MarginAt(r.h, py))]

\* margin_x, margin_y, x0, y0, x1, y1 at the given percentages
ClipBoxAt(r, W, H, px, py) ==
    [x0 |-> Max(0, r.x - MarginAt(r.w, px)),
     y0 |-> Max(0, r.y - MarginAt(r.h, py)),
     x1 |-> Min(W, r.x + r.w + MarginAt(r.w, px)),
     y1 |-> Min(H, r.y + r.h + MarginAt(r.h, py))]

\* NewEntry at the call's margin percentages
NewEntryAt(c, r) ==
    LET b == ClipBoxAt(r, Image(c).w, Image(c).h, args[c].margin_x_pct, args[c].margin_y_pct)
        base == [bbox |-> BBox(b), crop |-> Crop(Image(c), b)]
    IN  IF args[c].save_crops
        THEN base @@ ("saved_path" :> Path(args[c].out_dir, idx[c]))
        ELSE base

\* Finalize at the call's margin percentages
FinalizeAt(c) ==
    /\ pc[c] = "loop"
    /\ idx[c] < Len(contours[c])
    /\ IsEquationLike(Current(c), Image(c).w, Image(c).h)
    /\ LET e == NewEntryAt(c, Current(c))
       IN  /\ entry' = [entry EXCEPT ![c] = e]
           /\ IF args[c].save_crops
              THEN /\ files' = (e.saved_path :> e.crop) @@ files
                   /\ wrote' = [wrote EXCEPT ![c] = wrote[c] \cup {e.saved_path}]
              ELSE UNCHANGED <<files, wrote>>
    /\ pc' = [pc EXCEPT ![c] = "ocr"]
    /\ heap' = WithCrop(heap, c)
    /\ UNCHANGED <<args, contours, idx, candidates, accepted, ocrLog, dirs>>

NextMargin ==
    \/ \E c \in Calls : Load(c)
    \/ \E c \in Calls : EnsureDir(c)
    \/ \E c \in Calls : FindContours(c)
    \/ \E c \in Calls : Skip(c)
    \/ \E c \in Calls : FinalizeAt(c)
    \/ \E c \in Calls : Recognize(c)
    \/ \E c \in Calls : NoRecognize(c)
    \/ \E c \in Calls : Return(c)

ArgsMargin ==
    {[img |-> i, save_crops |-> FALSE, out_dir |-> DefaultOutDir, ocr |-> o,
      margin_x_pct |-> px, margin_y_pct |-> py] :
        i \in ConcImages \cup {NoImage}, o \in BOOLEAN, px \in MarginPcts, py \in MarginPcts}

\* Two runs of the detector, each at its own margin percentages.
InitMargin == InitOver({1, 2}, ArgsMargin)

SpecMargin == InitMargin /\ [][NextMargin]_vars

\* bbox e contains bbox f
ContainsBox(e, f) ==
    /\ e[1] <= f[1]
    /\ e[2] <= f[2]
    /\ f[1] + f[3] <= e[1] + e[3]
    /\ f[2] + f[4] <= e[2] + e[4]

(* C11: for a fixed accepted candidate and image, the bbox at a larger
   horizontal or vertical margin fraction contains the bbox at the smaller
   fraction; every bbox contains the pre-margin candidate box and lies
   inside the image; at the code's fractions the bbox is the one the code
   computes. *)
C11_MarginMonotonic ==
    \A c \in Calls :
        /\ \A i \in Regions(c) :
               LET r == Source(c, i)
                   e == candidates[c][i].bbox
               IN  /\ ContainsBox(e, <<r.x, r.y, r.w, r.h>>)
                   /\ ContainsBox(<<0, 0, Image(c).w, Image(c).h>>, e)
                   /\ (args[c].margin_x_pct = 3 /\ args[c].margin_y_pct = 5)
                        => e = BBox(ClipBox(r, Image(c).w, Image(c).h))
        /\ \A d \in Calls :
               ( /\ Done(c) /\ Done(d)
                 /\ Image(c) = Image(d)
                 /\ args[c].margin_x_pct <= args[d].margin_x_pct
                 /\ args[c].margin_y_pct <= args[d].margin_y_pct )
               => /\ Len(candidates[c]) = Len(candidates[d])
                  /\ \A i \in Regions(c) :
                         ContainsBox(candidates[d][i].bbox, candidates[c][i].bbox)

\* two finished runs on the same image, the second with larger fractions on
\* both axes, whose bbox for a Region is strictly larger and is clipped at
\* the image border
C11_Witness ==
    \E c, d \in Calls :
        /\ Done(c) /\ Done(d)
        /\ Image(c) = Image(d)
        /\ args[c].margin_x_pct < args[d].margin_x_pct
        /\ args[c].margin_y_pct < args[d].margin_y_pct
        /\ \E i \in Regions(c) :
               /\ candidates[d][i].bbox # candidates[c][i].bbox
               /\ candidates[d][i].bbox[3] > candidates[c][i].bbox[3]
               /\ candidates[d][i].bbox[4] > candidates[c][i].bbox[4]
               /\ candidates[d][i].bbox[1] + candidates[d][i].bbox[3] = Image(d).w

----------------------------------------------------------------------------
(* The caller's use of the result: direct calls of detect_equations_in_image
   on a colour or a single-channel array, after which the caller may write
   into the crops it was given. *)

OwnImages ==
    {[id |-> i.id, w |-> i.w, h |-> i.h, raw |-> i.raw, channels |-> ch] :
        i \in ConcImages, ch \in {1, 3}}

ArgsOwn ==
    {[img |-> i, save_crops |-> c.save_crops, out_dir |-> c.out_dir, ocr |-> c.ocr] :
        i \in OwnImages, c \in Configs({DefaultOutDir})}

\* the caller writes into the crop of the i-th Region of a finished call
MutateCrop(c, i) ==
    /\ pc[c] = "done"
    /\ i \in 1..Len(candidates[c])
    /\ CropArray(c, accepted[c][i]) \notin heap.mutated
    /\ heap' = [heap EXCEPT
                  !.written = @ \cup {heap.backing[CropArray(c, accepted[c][i])]},
                  !.mutated = @ \cup {CropArray(c, accepted[c][i])}]
    /\ UNCHANGED <<args, pc, contours, idx, entry, candidates, accepted, ocrLog, wrote, dirs, files>>

NextOwn ==
    \/ \E c \in Calls : EnsureDir(c)
    \/ \E c \in Calls : FindContours(c)
    \/ \E c \in Calls : Skip(c)
    \/ \E c \in Calls : Finalize(c)
    \/ \E c \in Calls : Recognize(c)
    \/ \E c \in Calls : NoRecognize(c)
    \/ \E c \in Calls : Return(c)
    \/ \E c \in Calls : \E i \in 1..MaxContours : MutateCrop(c, i)

InitOwn ==
    /\ args \in [{1} -> ArgsOwn]
    /\ pc = [c \in {1} |-> "ensure"]
    /\ contours = [c \in {1} |-> <<>>]
    /\ idx = [c \in {1} |-> 0]
    /\ entry = [c \in {1} |-> NoEntry]
    /\ candidates = [c \in {1} |-> <<>>]
    /\ accepted = [c \in {1} |-> <<>>]
    /\ ocrLog = [c \in {1} |-> <<>>]
    /\ wrote = [c \in {1} |-> {}]
    /\ dirs = {}
    /\ files = <<>>
    /\ heap = InitialHeap({1})

SpecOwn == InitOwn /\ [][NextOwn]_vars

\* the storage behind the crop of the i-th returned Region
CropStorage(c, i) == heap.backing[CropArray(c, accepted[c][i])]

(* C12: the crop of each returned Region has storage of its own, shared
   neither with the caller's image nor with another Region's crop: the
   storage of the caller's image is never written, by the call or by a later
   write into a crop, and the storage of a crop is written only when the
   caller writes into that very crop. *)
C12_CropsOwned ==
    \A c \in Calls :
        /\ heap.backing[ImgArray(c)] \notin heap.written
        /\ \A i \in Regions(c) :
               /\ CropArray(c, accepted[c][i]) \in DOMAIN heap.backing
               /\ CropStorage(c, i) # heap.backing[ImgArray(c)]
               /\ CropStorage(c, i) \in heap.written
                    => CropArray(c, accepted[c][i]) \in heap.mutated
               /\ \A j \in Regions(c) : i # j => CropStorage(c, i) # CropStorage(c, j)

\* a finished call on a single-channel image (gray is the caller's array)
\* that returned two Regions with overlapping bboxes; the caller has written
\* into the first crop and not into the second
C12_Witness ==
    \E c \in Calls :
        /\ Done(c)
        /\ Channels(Image(c)) = 1
        /\ Len(candidates[c]) = 2
        /\ Overlap(candidates[c][1], candidates[c][2])
        /\ CropArray(c, accepted[c][1]) \in heap.mutated
        /\ CropStorage(c, 1) \in heap.written
        /\ CropArray(c, accepted[c][2]) \notin heap.mutated

----------------------------------------------------------------------------
(* C13: the aspect-ratio check never rejects a candidate: the filter accepts
   a candidate exactly when w*h >= 400, not (w > 0.95 * image width and
   h > 0.95 * image height), w >= 10 and h >= 10; candidates with w/h below
   0.2 or above 10 that pass those three checks are accepted. *)
C13_AspectNeverRejects ==
    \A c \in Calls : Done(c) =>
        \A k \in Indices(c) :
            LET r == Cand(c, k)
            IN  k \in AcceptedIdx(c) <=>
                    /\ r.w * r.h >= 400
                    /\ ~(100 * r.w > 95 * Image(c).w /\ 100 * r.h > 95 * Image(c).h)
                    /\ r.w >= 10
                    /\ r.h >= 10

\* an accepted candidate five times as tall as it is wide (w/h < 0.2)
C13_Witness ==
    \E c \in Calls : Done(c) /\ \E k \in AcceptedIdx(c) : 5 * Cand(c, k).w <= Cand(c, k).h

(* C14: with save_crops every returned Region has a saved_path in the
   configured output directory whose file name is made from the Region's
   index in the sorted candidate list, the file at that path holds the
   Region's crop, the directory exists, and the saved paths of one call are
   pairwise distinct; without save_crops no Region has a saved_path, the
   output directory is not created and no file is written. *)
C14_PersistenceToggle ==
    \A c \in Calls :
        /\ args[c].save_crops =>
             /\ pc[c] \in {"contours", "loop", "ocr", "done"} => args[c].out_dir \in dirs
             /\ \A i \in Regions(c) :
                    LET e == candidates[c][i]
                    IN  /\ "saved_path" \in DOMAIN e
                        /\ e.saved_path.dir = args[c].out_dir
                        /\ e.saved_path.name.stem = "eq_"
                        /\ e.saved_path.name.ext = ".png"
                        /\ e.saved_path.name.digits = ZeroPad(Digits(accepted[c][i]), 3)
                        /\ e.saved_path \in DOMAIN files
                        /\ files[e.saved_path] = e.crop
             /\ \A i, j \in Regions(c) :
                    i # j => candidates[c][i].saved_path # candidates[c][j].saved_path
        /\ ~args[c].save_crops =>
             /\ \A i \in Regions(c) : "saved_path" \notin DOMAIN candidates[c][i]
             /\ entry[c] # NoEntry => "saved_path" \notin DOMAIN entry[c]
             /\ wrote[c] = {}
             /\ dirs = {}
             /\ DOMAIN files = {}

\* a call with save_crops that rejected the first sorted candidate and
\* accepted the second: its only Region is saved as eq_001.png
C14_Witness ==
    \E c \in Calls :
        /\ Done(c)
        /\ args[c].save_crops
        /\ Len(candidates[c]) = 1
        /\ accepted[c][1] = 1
        /\ candidates[c][1].saved_path.name.digits = <<0, 0, 1>>
        /\ candidates[c][1].saved_path \in DOMAIN files

====
